---- MODULE Spec2Model ----
(***************************************************************************)
(* A model of the CGM metrics library (src/cgm_gluc.py).                   *)
(*                                                                         *)
(* Numbers.  A glucose value is an integer number of tenths of its unit    *)
(* (700 is 70.0 mg/dL, 39 is 3.9 mmol/L), or NaN.  A series element is a   *)
(* record [nan, num, den] standing for num/den tenths; statistics are kept *)
(* exact: a mean is such a fraction, and a standard deviation or a bound   *)
(* mean + k*std is a record [nan, num, k, rad, den] standing for           *)
(* (num + k*sqrt(rad))/den.  Floating-point rounding is not modelled.      *)
(***************************************************************************)
EXTENDS Integers, Sequences, FiniteSets, TLC

VARIABLES
    x,        \* the glucose series handed to the metric functions
    ret,      \* the outcome of the last metric call on x
    df,       \* the caller-owned table handed to ADRR
    df0,      \* the table as the caller built it (history variable)
    pc,       \* pc[c]: the line of ADRR caller c is about to execute
    mmol_L,   \* mmol_L[c]: the unit flag of caller c's ADRR call
    local,    \* local[c]: ADRR's local variables HGRI, LBGI, ADRR of caller c
    result    \* result[c]: the tuple ADRR returned to caller c

vars == <<x, ret, df, df0, pc, mmol_L, local, result>>

---------------------------------------------------------------------------
(* Bounds of the model *)

MaxLen == 3
MaxSd == 2
MaxRows == 2
MaxDay == 2

\* glucose readings, in tenths: 3.9 and 12.0 (mmol/L), 70.0 and 250.0 (mg/dL)
Readings == {39, 120, 700, 2500}
SrValues == {1, 5}
TValues == {1, 5}
\* weights in percent: the default and two others
WeightTriples == {<<50, 35, 15>>, <<40, 40, 20>>, <<0, 0, 100>>}
Callers == {1, 2}

---------------------------------------------------------------------------
(* Numbers *)

NaN == [nan |-> TRUE, num |-> 0, den |-> 1]
Num(v) == [nan |-> FALSE, num |-> v, den |-> 1]
Frac(n, d) == [nan |-> FALSE, num |-> n, den |-> d]
AlgNaN == [nan |-> TRUE, num |-> 0, k |-> 0, rad |-> 0, den |-> 1]
FromInt(v) == [nan |-> FALSE, num |-> v, k |-> 0, rad |-> 0, den |-> 1]

Abs(n) == IF n < 0 THEN -n ELSE n

RECURSIVE SumOver(_, _)
SumOver(f, S) ==
    IF S = {} THEN 0
    ELSE LET i == CHOOSE j \in S : TRUE IN f[i] + SumOver(f, S \ {i})

RECURSIVE SqrtBetween(_, _, _)
SqrtBetween(n, lo, hi) ==
    IF lo = hi THEN lo
    ELSE LET mid == (lo + hi + 1) \div 2
         IN IF mid * mid <= n THEN SqrtBetween(n, mid, hi)
                              ELSE SqrtBetween(n, lo, mid - 1)

\* floor of the square root
Isqrt(n) == SqrtBetween(n, 0, IF n < 46340 THEN n ELSE 46340)

\* a < k*sqrt(rad) and a <= k*sqrt(rad), for integers a, k and rad >= 0
LtSurd(a, k, rad) ==
    IF k >= 0 THEN a < 0 \/ a * a < k * k * rad
              ELSE a < 0 /\ a * a > k * k * rad
LeSurd(a, k, rad) ==
    IF k >= 0 THEN a <= 0 \/ a * a <= k * k * rad
              ELSE a <= 0 /\ a * a >= k * k * rad

\* comparisons of a series element v with a bound b; any comparison with NaN is false
Lt(v, b) ==
    /\ ~v.nan /\ ~b.nan
    /\ LtSurd(v.num * b.den - b.num * v.den, b.k * v.den, b.rad)
Le(v, b) ==
    /\ ~v.nan /\ ~b.nan
    /\ LeSurd(v.num * b.den - b.num * v.den, b.k * v.den, b.rad)
Gt(v, b) ==
    /\ ~v.nan /\ ~b.nan
    /\ ~LeSurd(v.num * b.den - b.num * v.den, b.k * v.den, b.rad)
Ge(v, b) ==
    /\ ~v.nan /\ ~b.nan
    /\ ~LtSurd(v.num * b.den - b.num * v.den, b.k * v.den, b.rad)

---------------------------------------------------------------------------
(* NaN-aware statistics over a series (numpy) and pandas' diff *)

Valid(s) == {i \in 1..Len(s) : ~s[i].nan}
Count(s) == Cardinality(Valid(s))
\* the elements of one series share their denominator
CommonDen(s) == IF Valid(s) = {} THEN 1 ELSE s[CHOOSE i \in Valid(s) : TRUE].den
Sum(s) == SumOver([i \in 1..Len(s) |-> s[i].num], Valid(s))
SumSq(s) == SumOver([i \in 1..Len(s) |-> s[i].num * s[i].num], Valid(s))

nanmean(s) ==
    IF Valid(s) = {} THEN NaN
    ELSE Frac(Sum(s), Count(s) * CommonDen(s))

nanstd(s) ==
    IF Valid(s) = {} THEN AlgNaN
    ELSE [nan |-> FALSE, num |-> 0, k |-> 1,
          rad |-> Count(s) * SumSq(s) - Sum(s) * Sum(s),
          den |-> Count(s) * CommonDen(s)]

\* m + c*s for a mean m, an integer c and a standard deviation s
PlusScaled(m, c, s) ==
    IF m.nan \/ s.nan THEN AlgNaN
    ELSE IF m.den = s.den
         THEN [nan |-> FALSE, num |-> m.num, k |-> c * s.k, rad |-> s.rad, den |-> m.den]
         ELSE [nan |-> FALSE, num |-> m.num * s.den, k |-> c * s.k * m.den,
               rad |-> s.rad, den |-> m.den * s.den]

Sub(a, b) ==
    IF a.nan \/ b.nan THEN NaN
    ELSE IF a.den = b.den THEN Frac(a.num - b.num, a.den)
         ELSE Frac(a.num * b.den - b.num * a.den, a.den * b.den)

diff(s) == [i \in 1..Len(s) |-> IF i = 1 THEN NaN ELSE Sub(s[i], s[i - 1])]
abs(s) == [i \in 1..Len(s) |-> IF s[i].nan THEN NaN ELSE Frac(Abs(s[i].num), s[i].den)]
DivBy(s, t) == [i \in 1..Len(s) |-> IF s[i].nan THEN NaN ELSE Frac(s[i].num, s[i].den * t)]

---------------------------------------------------------------------------
(* Time in range *)

UpperBound(s, sd, TIR, range) ==
    IF TIR THEN FromInt(range[2]) ELSE PlusScaled(nanmean(s), sd, nanstd(s))
LowerBound(s, sd, TIR, range) ==
    IF TIR THEN FromInt(range[1]) ELSE PlusScaled(nanmean(s), -sd, nanstd(s))

InRange(s, up, dw) == {i \in 1..Len(s) : Le(s[i], up) /\ Ge(s[i], dw)}
\* the comparison of line 48 made inclusive: a reading on the lower bound counts as below
BelowRangeInclusive(s, dw) == {i \in 1..Len(s) : Le(s[i], dw)}
BelowRange(s, dw) == {i \in 1..Len(s) : Lt(s[i], dw)}
AboveRange(s, up) == {i \in 1..Len(s) : Gt(s[i], up)}

TR_min(s, sd, sr, TIR, range) ==
    LET up == UpperBound(s, sd, TIR, range)
        dw == LowerBound(s, sd, TIR, range)
        tir == Cardinality(InRange(s, up, dw))
        tbr == Cardinality(BelowRange(s, dw))
        tar == Cardinality(AboveRange(s, up))
    IN <<tir, tbr, tar, tar + tbr>>

Returned(v) == [exc |-> "none", val |-> v]
Raised(e) == [exc |-> e, val |-> <<>>]

AddFrac(a, b) ==
    IF a.den = b.den THEN Frac(a.num + b.num, a.den)
    ELSE Frac(a.num * b.den + b.num * a.den, a.den * b.den)

TR_percent(s, sd, sr, TIR, range) ==
    LET up == UpperBound(s, sd, TIR, range)
        dw == LowerBound(s, sd, TIR, range)
    IN IF Len(s) = 0 THEN Raised("ZeroDivisionError")
       ELSE LET tir == Frac(Cardinality(InRange(s, up, dw)), Len(s))
                tbr == Frac(Cardinality(BelowRange(s, dw)), Len(s))
                tar == Frac(Cardinality(AboveRange(s, up)), Len(s))
            IN Returned(<<tir, tbr, tar, AddFrac(tar, tbr)>>)

---------------------------------------------------------------------------
(* The series metrics as calls on x *)

Series == UNION {[1..n -> {Num(v) : v \in Readings} \cup {NaN}] : n \in 0..MaxLen}
Ranges == {<<700, 1800>>, <<39, 100>>}

NoCall == [fn |-> "none", args |-> <<>>, exc |-> "none", val |-> <<>>]
Outcome(fn, args, o) == [fn |-> fn, args |-> args, exc |-> o.exc, val |-> o.val]

Idle == [c \in Callers |-> "idle"]
NoTable == [glucose |-> <<>>, Day |-> <<>>, rh |-> <<>>, rl |-> <<>>, cols |-> {}]

Init ==
    /\ x \in Series
    /\ ret = NoCall
    /\ df = NoTable /\ df0 = NoTable
    /\ pc = Idle
    /\ mmol_L = [c \in Callers |-> FALSE]
    /\ local = [c \in Callers |-> <<>>]
    /\ result = [c \in Callers |-> <<>>]

\* the arguments of a time-in-range call: the statistical mode with a multiplier
\* sd and the default range, or the fixed mode with a range and the default sd
TRArgs ==
    {[sd |-> sd, TIR |-> FALSE, range |-> <<700, 1800>>] : sd \in 0..MaxSd}
    \cup {[sd |-> 1, TIR |-> TRUE, range |-> r] : r \in Ranges}

CallTR_min ==
    \E a \in TRArgs, sr \in SrValues :
        /\ ret' = Outcome("TR_min", [sd |-> a.sd, sr |-> sr, TIR |-> a.TIR, range |-> a.range],
                          Returned(TR_min(x, a.sd, sr, a.TIR, a.range)))
        /\ UNCHANGED <<x, df, df0, pc, mmol_L, local, result>>

CallTR_percent ==
    \E a \in TRArgs, sr \in SrValues :
        /\ ret' = Outcome("TR_percent", [sd |-> a.sd, sr |-> sr, TIR |-> a.TIR, range |-> a.range],
                          TR_percent(x, a.sd, sr, a.TIR, a.range))
        /\ UNCHANGED <<x, df, df0, pc, mmol_L, local, result>>

---------------------------------------------------------------------------
(* COGI.  Its value is kept in hundredths of a point, every division       *)
(* rounding down; SD enters rounded down to a tenth of the glucose unit.   *)

Clip(v, lo, hi) == IF v < lo THEN lo ELSE IF v > hi THEN hi ELSE v

\* TIR*100*w, for a weight of w percent
TirTerm(TIR, w) == (TIR.num * 100 * w) \div TIR.den
\* (1 - clip(TBR/0.15, 0, 1))*100*w
TbrTerm(TBR, w) == (100 - Clip((TBR.num * 10000) \div (TBR.den * 15), 0, 100)) * w
\* 100 - clip((SD - lo)/(hi - lo)*100, 0, 100)
SdTerm(SD, lo, hi) ==
    10000 - Clip(((Isqrt(SD.rad) \div SD.den - lo) * 10000) \div (hi - lo), 0, 10000)

DefaultRange == <<<<700, 1800>>, <<39, 100>>>>

COGI(s, range, overall_weights, mmol) ==
    LET SD == nanstd(s)
        tr == TR_percent(s, 1, 5, TRUE, IF mmol THEN range[2] ELSE range[1])
    IN IF tr.exc # "none" THEN tr
       ELSE IF SD.nan THEN Returned(NaN)
       ELSE IF mmol
            THEN Returned(Frac(TirTerm(tr.val[1], overall_weights[1])
                               + TbrTerm(tr.val[2], overall_weights[2])
                               + SdTerm(SD, 10, 60), 100))
            ELSE Returned(Frac(TirTerm(tr.val[1], overall_weights[1])
                               + TbrTerm(tr.val[2], overall_weights[2])
                               + (SdTerm(SD, 180, 1080) * overall_weights[3]) \div 100, 100))

---------------------------------------------------------------------------
(* The difference metrics, GMI and the J-index *)

CONGA(s, hours) == nanstd(diff(s))
MODD(s) == nanmean(abs(diff(s)))
SDRC(s, t) == nanstd(abs(DivBy(diff(s), t)))

\* 12.71 + 4.70587*mean, kept as its parts: const + slope*mean
GMI(s) ==
    LET m == nanmean(s)
    IN [nan |-> m.nan, const |-> <<1271, 100>>, slope |-> <<470587, 100000>>, mean |-> m]

\* 0.324*(mean + std)^2, kept as its parts: coef*base^2
Jindex(s) ==
    LET b == PlusScaled(nanmean(s), 1, nanstd(s))
    IN [nan |-> b.nan, coef |-> <<324, 1000>>, base |-> b]

CallCOGI ==
    \E w \in WeightTriples, mmol \in BOOLEAN :
        /\ ret' = Outcome("COGI", [overall_weights |-> w, mmol_L |-> mmol],
                          COGI(x, DefaultRange, w, mmol))
        /\ UNCHANGED <<x, df, df0, pc, mmol_L, local, result>>

CallCONGA ==
    /\ ret' = Outcome("CONGA", [hours |-> 1], Returned(CONGA(x, 1)))
    /\ UNCHANGED <<x, df, df0, pc, mmol_L, local, result>>

CallMODD ==
    /\ ret' = Outcome("MODD", <<>>, Returned(MODD(x)))
    /\ UNCHANGED <<x, df, df0, pc, mmol_L, local, result>>

CallGMI ==
    /\ ret' = Outcome("GMI", <<>>, Returned(GMI(x)))
    /\ UNCHANGED <<x, df, df0, pc, mmol_L, local, result>>

CallJindex ==
    /\ ret' = Outcome("Jindex", <<>>, Returned(Jindex(x)))
    /\ UNCHANGED <<x, df, df0, pc, mmol_L, local, result>>

CallSDRC ==
    \E t \in TValues :
        /\ ret' = Outcome("SDRC", [t |-> t], Returned(SDRC(x, t)))
        /\ UNCHANGED <<x, df, df0, pc, mmol_L, local, result>>

Next ==
    \/ CallTR_min
    \/ CallTR_percent
    \/ CallCOGI
    \/ CallCONGA
    \/ CallMODD
    \/ CallGMI
    \/ CallJindex
    \/ CallSDRC

Spec == Init /\ [][Next]_vars

---------------------------------------------------------------------------
(* Properties of the series metrics, checked under Spec *)

\* the bounds and the three index sets of the call recorded in ret
RetUp == UpperBound(x, ret.args.sd, ret.args.TIR, ret.args.range)
RetDw == LowerBound(x, ret.args.sd, ret.args.TIR, ret.args.range)
RetIn == InRange(x, RetUp, RetDw)
RetBelow == BelowRange(x, RetDw)
RetAbove == AboveRange(x, RetUp)

\* C1: for a non-empty series, with or without NaN readings and in both bound
\* modes, the first three values TR_percent returns sum to 1 and the fourth is
\* TBR + TAR.
TR_percentSumsToOne ==
    (ret.fn = "TR_percent" /\ ret.exc = "none") =>
        /\ ret.val[1].den = ret.val[2].den /\ ret.val[2].den = ret.val[3].den
        /\ ret.val[1].num + ret.val[2].num + ret.val[3].num = ret.val[1].den
        /\ ret.val[4].num * ret.val[2].den
               = (ret.val[2].num + ret.val[3].num) * ret.val[4].den

\* C2: the three counts TR_min returns sum to the number of non-missing
\* readings: the in-range, below-range and above-range readings are pairwise
\* disjoint, together they are exactly the non-missing readings, and the
\* counts returned are their sizes.
TR_minCountsPartition ==
    ret.fn = "TR_min" =>
        /\ ret.val[1] + ret.val[2] + ret.val[3] = Count(x)
        /\ ret.val[1] = Cardinality(RetIn)
        /\ ret.val[2] = Cardinality(RetBelow)
        /\ ret.val[3] = Cardinality(RetAbove)
        /\ RetIn \cup RetBelow \cup RetAbove = Valid(x)
        /\ RetIn \cap RetBelow = {}
        /\ RetIn \cap RetAbove = {}
        /\ RetBelow \cap RetAbove = {}

\* a TR_min call on a series with a missing reading, a reading below range and
\* a reading exactly on the lower bound, which is counted in range
TR_minBoundaryWitness ==
    /\ ret.fn = "TR_min"
    /\ Count(x) < Len(x)
    /\ ret.val[2] > 0
    /\ \E i \in RetIn : ~Gt(x[i], RetDw)

\* C3: TR_percent, GMI and Jindex on an empty series end in a failure and
\* return no value.
EmptySeriesFails ==
    (ret.fn \in {"TR_percent", "GMI", "Jindex"} /\ Len(x) = 0) => ret.exc # "none"

\* C4: CONGA, MODD and SDRC fail on a series with fewer than 2 non-missing
\* readings and return no value.
InsufficientDataFails ==
    (ret.fn \in {"CONGA", "MODD", "SDRC"} /\ Count(x) < 2) => ret.exc # "none"

\* C6: in both unit branches COGI is
\* 100*w0*TIR + 100*w1*(1 - clip(TBR/0.15, 0, 1)) + w2*(100 - clip(...)),
\* the third weight multiplying the variability term, and with weights that
\* sum to 1 the result lies in [0, 100].
COGIWeightsAllTerms ==
    (ret.fn = "COGI" /\ ret.exc = "none" /\ ~ret.val.nan) =>
        LET w == ret.args.overall_weights
            tr == TR_percent(x, 1, 5, TRUE,
                             IF ret.args.mmol_L THEN DefaultRange[2] ELSE DefaultRange[1])
            sdTerm == IF ret.args.mmol_L THEN SdTerm(nanstd(x), 10, 60)
                                         ELSE SdTerm(nanstd(x), 180, 1080)
        IN /\ ret.val.den = 100
           /\ ret.val.num = TirTerm(tr.val[1], w[1]) + TbrTerm(tr.val[2], w[2])
                              + (sdTerm * w[3]) \div 100
           /\ (w[1] + w[2] + w[3] = 100) => (0 <= ret.val.num /\ ret.val.num <= 10000)

\* C7: each of the four values TR_min returns is the corresponding reading
\* count multiplied by the sampling rate sr.
TR_minScalesBySr ==
    ret.fn = "TR_min" =>
        ret.val = << Cardinality(RetIn) * ret.args.sr,
                     Cardinality(RetBelow) * ret.args.sr,
                     Cardinality(RetAbove) * ret.args.sr,
                     (Cardinality(RetAbove) + Cardinality(RetBelow)) * ret.args.sr >>

\* C10: for a series of at least 2 readings SDRC(x, t) is the standard
\* deviation of the signed consecutive differences divided by t, that is
\* CONGA(x)/t.
SDRCIsCongaOverT ==
    (ret.fn = "SDRC" /\ Len(x) >= 2) =>
        LET conga == CONGA(x, 1)
        IN /\ ret.val.nan = conga.nan
           /\ ~conga.nan =>
                /\ ret.val.den = conga.den * ret.args.t
                /\ ret.val.k = conga.k
                /\ ret.val.rad = conga.rad

---------------------------------------------------------------------------
(* ADRR on a table df shared by the callers, one action per statement *)

\* 1.509*(ln(g)^1.084 - 5.381) and 1.794*(ln(g)^1.026 - 1.861), g and the value
\* in tenths and rounded to a tenth, at the glucose values the tables can hold
SymmMgdL == (12 :> -79) @@ (15 :> -76) @@ (39 :> -60) @@ (46 :> -57)
            @@ (70 :> -50) @@ (120 :> -41) @@ (700 :> -9) @@ (2500 :> 15)
SymmMmolL == (12 :> -30) @@ (15 :> -26) @@ (39 :> -9) @@ (46 :> -6)
             @@ (70 :> 2) @@ (120 :> 12) @@ (700 :> 46) @@ (2500 :> 70)

\* the log of a value below 1.0 is negative or undefined, and its non-integer
\* power is NaN (a value of exactly 0 is not in the model)
Symmetrize(g, mmol) ==
    CASE g.nan -> NaN
      [] ~g.nan /\ g.num # 0 /\ g.num < 10 -> NaN
      [] ~g.nan /\ g.num >= 10 -> Num(IF mmol THEN SymmMmolL[g.num] ELSE SymmMgdL[g.num])

\* Python's max(v, 0) and min(v, 0): v is kept unless 0 compares beyond it
MaxZero(v) == IF ~v.nan /\ 0 > v.num THEN Num(0) ELSE v
MinZero(v) == IF ~v.nan /\ 0 < v.num THEN Num(0) ELSE v
\* 10*v^2, which for v in tenths is v*v tenths
TenSquare(v) == IF v.nan THEN NaN ELSE Num(v.num * v.num)

Transformed(t, mmol) ==
    [t EXCEPT !.glucose = [i \in 1..Len(t.glucose) |-> Symmetrize(t.glucose[i], mmol)]]
WithRh(t) ==
    [t EXCEPT !.rh = [i \in 1..Len(t.glucose) |-> TenSquare(MaxZero(t.glucose[i]))],
              !.cols = @ \cup {"rh"}]
WithRl(t) ==
    [t EXCEPT !.rl = [i \in 1..Len(t.glucose) |-> TenSquare(MinZero(t.glucose[i]))],
              !.cols = @ \cup {"rl"}]

Days(t) == {t.Day[i] : i \in 1..Len(t.Day)}
\* groupby('Day')[col].max(): the largest non-missing value of the day, or NaN
DayMax(col, t, d) ==
    LET S == {i \in Valid(col) : t.Day[i] = d}
    IN IF S = {} THEN NaN
       ELSE Num(col[CHOOSE i \in S : \A j \in S : col[j].num <= col[i].num].num)
Add(a, b) == IF a.nan \/ b.nan THEN NaN ELSE AddFrac(a, b)
NthDay(t, j) == CHOOSE d \in Days(t) : Cardinality({e \in Days(t) : e < d}) = j - 1
DailyRange(t) ==
    [j \in 1..Cardinality(Days(t)) |->
        Add(DayMax(t.rh, t, NthDay(t, j)), DayMax(t.rl, t, NthDay(t, j)))]

\* one whole call on table t: the tuple returned and the table left behind
ADRRTable(t, mmol) == WithRl(WithRh(Transformed(t, mmol)))
ADRR(t, mmol) ==
    LET u == ADRRTable(t, mmol)
        HGRI == nanmean(u.rh)
        LBGI == nanmean(u.rl)
    IN <<nanmean(DailyRange(u)), HGRI, LBGI>>

Rows(n) == {r \in [glucose : [1..n -> {Num(v) : v \in Readings} \cup {NaN}],
                   Day : [1..n -> 1..MaxDay]] :
               \A i \in 1..n, j \in 1..n : i <= j => r.Day[i] <= r.Day[j]}
Tables == {[glucose |-> r.glucose, Day |-> r.Day, rh |-> <<>>, rl |-> <<>>,
            cols |-> {"glucose", "Time", "Day"}] : r \in UNION {Rows(n) : n \in 0..MaxRows}}

NoLocals == [HGRI |-> NaN, LBGI |-> NaN, ADRR |-> NaN]

InitADRR ==
    /\ x = <<>>
    /\ ret = NoCall
    /\ df \in Tables
    /\ df0 = df
    /\ pc = Idle
    /\ mmol_L = [c \in Callers |-> FALSE]
    /\ local = [c \in Callers |-> NoLocals]
    /\ result = [c \in Callers |-> <<>>]

ADRREnter(c) ==
    \E flag \in BOOLEAN :
        /\ pc[c] = "idle"
        /\ mmol_L' = [mmol_L EXCEPT ![c] = flag]
        /\ pc' = [pc EXCEPT ![c] = "L84"]
        /\ UNCHANGED <<x, ret, df, df0, local, result>>

ADRRTransform(c) ==
    /\ pc[c] = "L84"
    /\ df' = Transformed(df, mmol_L[c])
    /\ pc' = [pc EXCEPT ![c] = "L90"]
    /\ UNCHANGED <<x, ret, df0, mmol_L, local, result>>

ADRRSetRh(c) ==
    /\ pc[c] = "L90"
    /\ df' = WithRh(df)
    /\ pc' = [pc EXCEPT ![c] = "L91"]
    /\ UNCHANGED <<x, ret, df0, mmol_L, local, result>>

ADRRSetRl(c) ==
    /\ pc[c] = "L91"
    /\ df' = WithRl(df)
    /\ pc' = [pc EXCEPT ![c] = "L93"]
    /\ UNCHANGED <<x, ret, df0, mmol_L, local, result>>

ADRRMeanRh(c) ==
    /\ pc[c] = "L93"
    /\ local' = [local EXCEPT ![c].HGRI = nanmean(df.rh)]
    /\ pc' = [pc EXCEPT ![c] = "L94"]
    /\ UNCHANGED <<x, ret, df, df0, mmol_L, result>>

ADRRMeanRl(c) ==
    /\ pc[c] = "L94"
    /\ local' = [local EXCEPT ![c].LBGI = nanmean(df.rl)]
    /\ pc' = [pc EXCEPT ![c] = "L97"]
    /\ UNCHANGED <<x, ret, df, df0, mmol_L, result>>

ADRRDailyRange(c) ==
    /\ pc[c] = "L97"
    /\ local' = [local EXCEPT ![c].ADRR = nanmean(DailyRange(df))]
    /\ pc' = [pc EXCEPT ![c] = "L99"]
    /\ UNCHANGED <<x, ret, df, df0, mmol_L, result>>

ADRRReturn(c) ==
    /\ pc[c] = "L99"
    /\ result' = [result EXCEPT ![c] = <<local[c].ADRR, local[c].HGRI, local[c].LBGI>>]
    /\ pc' = [pc EXCEPT ![c] = "done"]
    /\ UNCHANGED <<x, ret, df, df0, mmol_L, local>>

NextADRR ==
    \E c \in Callers :
        \/ ADRREnter(c)
        \/ ADRRTransform(c)
        \/ ADRRSetRh(c)
        \/ ADRRSetRl(c)
        \/ ADRRMeanRh(c)
        \/ ADRRMeanRl(c)
        \/ ADRRDailyRange(c)
        \/ ADRRReturn(c)

SpecADRR == InitADRR /\ [][NextADRR]_vars

---------------------------------------------------------------------------
(* Properties of ADRR, checked under SpecADRR *)

\* C5: when an ADRR call has returned, the caller's table has the columns and
\* the 'glucose' values it had before the call.
ADRRLeavesTableUnchanged ==
    \A c \in Callers :
        pc[c] = "done" => (df.cols = df0.cols /\ df.glucose = df0.glucose)

\* every reading of table t lies above the zero point of the symmetrization
AllAboveZeroPoint(t, mmol) ==
    /\ Len(t.glucose) > 0
    /\ \A i \in 1..Len(t.glucose) :
           ~t.glucose[i].nan /\ Symmetrize(t.glucose[i], mmol).num > 0

\* C8: ADRR returns (ADRR, LBGI, HBGI) in that order: for a table whose
\* readings are all above the zero point the second value returned is 0 and
\* the third is positive.  Stated of a call that ran alone on the table the
\* caller built.
ADRRReturnsLowThenHigh ==
    \A c \in Callers :
        ( /\ pc[c] = "done"
          /\ \A o \in Callers \ {c} : pc[o] = "idle"
          /\ AllAboveZeroPoint(df0, mmol_L[c]) ) =>
            /\ ~result[c][2].nan /\ result[c][2].num = 0
            /\ ~result[c][3].nan /\ result[c][3].num > 0

\* C9: whatever the order or interleaving of the callers' ADRR calls on one
\* table, each call returns what a single call on the table the caller built
\* returns.
ADRRCallsIndependent ==
    \A c \in Callers :
        pc[c] = "done" => result[c] = ADRR(df0, mmol_L[c])

====
